---- MODULE Spec2Model ----
(***************************************************************************)
(* Route optimization engine of src/src/services/optimization.js:          *)
(* optimizeRouteGreedy, optimize2Opt, calculateTotalDistance and           *)
(* findOptimalInsertionPoint, each modelled as the state machine of its    *)
(* loops over inputs drawn from bounded sets.                              *)
(***************************************************************************)
EXTENDS Integers, Sequences, FiniteSets, TLC

VARIABLES
  pc,               \* position of the running function
  currentLocation,  \* argument: the start point
  stores,           \* argument of optimizeRouteGreedy
  route,            \* greedy: the route being built; 2-opt / insertion: the argument
  unvisited,        \* greedy: the Set of ids, in insertion order
  current,          \* greedy: the current position
  loops,            \* greedy: number of iterations of the while loop begun
  maxIterations,    \* argument of optimize2Opt
  improved,         \* 2-opt: flag of the current pass
  iterations,       \* 2-opt: passes begun
  currentRoute,     \* 2-opt: the working copy
  i, j,             \* loop indices (0-based, as in the source)
  currentDist,      \* 2-opt: value of the last comparison
  swappedDist,      \* 2-opt: value of the last comparison
  segs,             \* 2-opt: index pairs handed to calculateDistance by the last comparison
  newStore,         \* argument of findOptimalInsertionPoint
  minIncrease,      \* insertion: best increase so far
  bestIndex,        \* insertion: best index so far
  result,           \* the returned value
  transportMode,    \* argument of calculateRouteStats ("undefined" when omitted)
  totalDistance,    \* stats: thousandths of a mile, unrounded
  totalTime,        \* stats: thousandths of a minute, unrounded
  totalCost         \* stats: thousandths of a dollar, unrounded

vars == <<pc, currentLocation, stores, route, unvisited, current, loops,
          maxIterations, improved, iterations, currentRoute, i, j,
          currentDist, swappedDist, segs, newStore, minIncrease, bestIndex,
          result, transportMode, totalDistance, totalTime, totalCost>>

----------------------------------------------------------------------------
(* Bounds *)

MaxStores == 3      \* greedy: longest input list
MaxRoute == 4       \* 2-opt: longest route
MaxIter == 2        \* 2-opt: largest maxIterations
MaxInsert == 3      \* insertion: longest route
MaxStats == 3       \* stats: longest route

(* Number.POSITIVE_INFINITY: larger than every distance of the model *)
Infinity == 1000000

----------------------------------------------------------------------------
(* Points and distance *)

Pt(x, y) == [lat |-> x, lng |-> y]

(* Number.NaN, the value of a coordinate that is not a finite number and of
   every distance computed from one: a number outside every coordinate and
   distance of the model, told apart before any arithmetic or comparison *)
NaN == -2000000

(* A point set in which every straight-line distance is a whole number *)
Coords == {Pt(0, 0), Pt(3, 0), Pt(-3, 0), Pt(0, 4), Pt(0, -4)}

(* Integer square root, rounded down, for n below 2^30: the block of 1024
   that holds it, then the block of 32, then the root *)
ISqrt(n) ==
  LET a == CHOOSE x \in 0..31 : (1024 * (x + 1)) * (1024 * (x + 1)) > n
      b == CHOOSE y \in (32 * a)..(32 * a + 31) : (32 * (y + 1)) * (32 * (y + 1)) > n
  IN  CHOOSE d \in (32 * b)..(32 * b + 31) : d * d <= n /\ n < (d + 1) * (d + 1)

(* utils/distance: straight-line distance, non-negative, symmetric, zero
   iff the points coincide.  Coordinates are whole thousandths of a mile on
   a plane and the distance is in thousandths of a mile, rounded down; it
   is exact on Coords.  Arithmetic on a coordinate that is not a number
   gives NaN *)
calculateDistance(lat1, lng1, lat2, lng2) ==
  IF lat1 = NaN \/ lng1 = NaN \/ lat2 = NaN \/ lng2 = NaN THEN NaN
  ELSE LET dx == lat1 - lat2
           dy == lng1 - lng2
       IN  ISqrt(dx * dx + dy * dy)

Stop(k, p) == [id |-> k, coordinates |-> p]

(* 0-based element access, as route[k] in the source *)
At(r, k) == r[k + 1]

(* Array.prototype.slice(a, b) on 0-based indices, b exclusive *)
Slice(r, a, b) == SubSeq(r, a + 1, b)

Reverse(r) == [k \in 1..Len(r) |-> r[Len(r) + 1 - k]]

Ids(r) == [k \in 1..Len(r) |-> r[k].id]

----------------------------------------------------------------------------
(* optimizeRouteGreedy *)

(* new Set(stores.map(s => s.id)): the ids in order of first occurrence *)
RECURSIVE SetOf(_, _)
SetOf(ids, acc) ==
  IF ids = <<>> THEN acc
  ELSE SetOf(Tail(ids),
             IF \E k \in 1..Len(acc) : acc[k] = Head(ids)
             THEN acc ELSE Append(acc, Head(ids)))

FindStripped(ss, storeId) ==
  LET hits == {k \in 1..Len(ss) : ss[k].id = storeId}
      first == CHOOSE k \in hits : \A m \in hits : k <= m
  IN  IF hits = {} THEN <<>>
      ELSE <<Stop(ss[first].id, ss[first].coordinates)>>

FindLast(ss, storeId) ==
  LET hits == {k \in 1..Len(ss) : ss[k].id = storeId}
  IN  IF hits = {} THEN <<>>
      ELSE <<ss[CHOOSE k \in hits : \A m \in hits : k >= m]>>

(* stores.find(s => s.id === storeId): the first store carrying the id *)
Find(ss, storeId) ==
  LET hits == {k \in 1..Len(ss) : ss[k].id = storeId}
  IN  IF hits = {} THEN <<>>
      ELSE <<ss[CHOOSE k \in hits : \A m \in hits : k <= m]>>

DistTo(p, store) ==
  calculateDistance(p.lat, p.lng, store.coordinates.lat, store.coordinates.lng)

CloserOrEqual(distance, minDistance) == distance <= minDistance

CloserUnordered(distance, minDistance) == distance < minDistance

(* the test distance < minDistance of the nearest-store scan; a comparison
   with NaN is false *)
Closer(distance, minDistance) ==
  distance # NaN /\ minDistance # NaN /\ distance < minDistance

(* the for-of loop over unvisited: best = <<nearestStore, minDistance>>,
   nearestStore being <<>> for null *)
RECURSIVE NearestScan(_, _, _, _)
NearestScan(ids, ss, cur, best) ==
  IF ids = <<>> THEN best
  ELSE LET found == Find(ss, Head(ids))
       IN  IF found = <<>> THEN NearestScan(Tail(ids), ss, cur, best)
           ELSE LET distance == DistTo(cur, found[1])
                IN  NearestScan(Tail(ids), ss, cur,
                                IF Closer(distance, best[2])
                                THEN <<found, distance>> ELSE best)

DeleteFirst(set, id) == IF set = <<>> THEN set ELSE Tail(set)

(* Set.prototype.delete *)
SetDelete(set, id) == SelectSeq(set, LAMBDA x : x # id)

StayAt(cur, store) == cur

(* current = nearestStore.coordinates *)
MoveTo(cur, store) == store.coordinates

Idle ==
  /\ unvisited = <<>> /\ current = Pt(0, 0) /\ loops = 0
  /\ maxIterations = 0 /\ improved = FALSE /\ iterations = 0
  /\ currentRoute = <<>> /\ i = 0 /\ j = 0
  /\ currentDist = 0 /\ swappedDist = 0 /\ segs = {}
  /\ minIncrease = 0 /\ bestIndex = 0
  /\ result = <<>>
  /\ transportMode = "undefined"
  /\ totalDistance = 0 /\ totalTime = 0 /\ totalCost = 0

(* Lists of n stops whose ids repeat in every possible pattern *)
StoreLists(n) ==
  {[k \in 1..n |-> Stop(f[k], g[k])] :
     f \in {h \in [1..n -> 1..n] : \A k \in 1..n : h[k] <= k},
     g \in [1..n -> Coords]}

InitGreedy ==
  /\ pc = "greedy"
  /\ currentLocation \in Coords
  /\ \E n \in 0..MaxStores : stores \in StoreLists(n)
  /\ route = <<>>
  /\ newStore = Stop(0, Pt(0, 0))
  /\ Idle

GreedyFrame ==
  UNCHANGED <<currentLocation, stores, maxIterations, improved, iterations,
              currentRoute, i, j, currentDist, swappedDist, segs, newStore,
              minIncrease, bestIndex, transportMode, totalDistance,
              totalTime, totalCost>>

(* lines 8-19: the early returns and the initialisation *)
GreedyCall ==
  /\ pc = "greedy"
  /\ IF Len(stores) = 0
     THEN /\ result' = <<>>
          /\ pc' = "done"
          /\ UNCHANGED <<route, unvisited, current>>
     ELSE IF Len(stores) = 1
     THEN /\ result' = <<stores[1]>>
          /\ pc' = "done"
          /\ UNCHANGED <<route, unvisited, current>>
     ELSE /\ route' = <<>>
          /\ unvisited' = SetOf(Ids(stores), <<>>)
          /\ current' = currentLocation
          /\ pc' = "greedyWhile"
          /\ UNCHANGED result
  /\ UNCHANGED loops
  /\ GreedyFrame

(* lines 21-50: one iteration of the while loop *)
GreedySelect ==
  /\ pc = "greedyWhile"
  /\ Len(unvisited) > 0
  /\ \E best \in {NearestScan(unvisited, stores, current, <<<<>>, Infinity>>)} :
         LET nearestStore == best[1]
         IN  IF nearestStore # <<>>
             THEN /\ route' = Append(route, nearestStore[1])
                  /\ unvisited' = SetDelete(unvisited, nearestStore[1].id)
                  /\ current' = MoveTo(current, nearestStore[1])
                  /\ pc' = "greedyWhile"
             ELSE /\ pc' = "greedyReturn"
                  /\ UNCHANGED <<route, unvisited, current>>
  /\ loops' = loops + 1
  /\ UNCHANGED result
  /\ GreedyFrame

(* line 52, reached when the loop condition fails or after break *)
GreedyReturn ==
  /\ \/ pc = "greedyWhile" /\ Len(unvisited) = 0
     \/ pc = "greedyReturn"
  /\ result' = route
  /\ pc' = "done"
  /\ UNCHANGED <<route, unvisited, current, loops>>
  /\ GreedyFrame

NextGreedy == GreedyCall \/ GreedySelect \/ GreedyReturn

SpecGreedy == InitGreedy /\ [][NextGreedy]_vars

----------------------------------------------------------------------------
(* Properties of optimizeRouteGreedy *)

DistinctIds(ss) ==
  \A a, b \in 1..Len(ss) : a # b => ss[a].id # ss[b].id

Occurrences(r, s) == Cardinality({m \in 1..Len(r) : r[m] = s})

(* the stops of ss whose id is still in the unvisited set *)
UnvisitedIdx(ss, set) ==
  {k \in 1..Len(ss) : \E m \in 1..Len(set) : set[m] = ss[k].id}

MinIdx(S) == CHOOSE k \in S : \A m \in S : k <= m

(* C4: for stops with pairwise-distinct ids the greedy route has the length
   of the input and holds each input stop exactly once, and the while loop
   runs exactly once per stop *)
C4_GreedyPermutation ==
  (DistinctIds(stores) /\ pc \in {"greedyWhile", "greedyReturn", "done"}) =>
     /\ pc = "done" =>
          /\ Len(result) = Len(stores)
          /\ \A k \in 1..Len(stores) : Occurrences(result, stores[k]) = 1
          /\ Len(stores) >= 2 => loops = Len(stores)
     /\ pc # "done" =>
          /\ loops = Len(route)
          /\ \A k \in 1..Len(stores) : Occurrences(route, stores[k]) <= 1

C4_Witness ==
  /\ pc = "done"
  /\ DistinctIds(stores)
  /\ Len(stores) >= 3
  /\ loops = Len(stores)
  /\ result # stores

(* C5: at every selection, among the unvisited stops at the minimum distance
   from the current position the one appended is the earliest of the input
   list *)
C5_TieBreakEarliest ==
  [][(pc = "greedyWhile" /\ DistinctIds(stores) /\ route' # route) =>
       LET U == UnvisitedIdx(stores, unvisited)
           ties == {k \in U : \A m \in U :
                      DistTo(current, stores[k]) <= DistTo(current, stores[m])}
       IN  route' = Append(route, stores[MinIdx(ties)])]_vars

(* a selection made among tied stops after the first stop of the input list
   had already been removed *)
C5_Witness ==
  /\ pc = "greedyWhile"
  /\ DistinctIds(stores)
  /\ Len(route) >= 2
  /\ route[1] = stores[1]
  /\ \E m \in 1..Len(unvisited) :
        LET other == Find(stores, unvisited[m])[1]
            prev == route[Len(route) - 1].coordinates
        IN  DistTo(prev, other) = DistTo(prev, route[Len(route)])

PrevPos(r, k) == IF k = 1 THEN currentLocation ELSE r[k - 1].coordinates

(* C6: in the returned route of two or more stops the k-th stop is at minimum
   distance from the previous position among the stops not placed before it *)
C6_NearestAtEachStep ==
  (pc = "done" /\ DistinctIds(stores) /\ Len(stores) >= 2) =>
     \A k \in 1..Len(result) :
        \A m \in 1..Len(stores) :
           (\A b \in 1..(k - 1) : result[b] # stores[m]) =>
              DistTo(PrevPos(result, k), result[k])
                 <= DistTo(PrevPos(result, k), stores[m])

(* a route whose third stop is nearer to the start than its second: the
   distances were taken from the moving position *)
C6_Witness ==
  /\ pc = "done"
  /\ DistinctIds(stores)
  /\ Len(result) >= 3
  /\ DistTo(currentLocation, result[3]) < DistTo(currentLocation, result[2])

----------------------------------------------------------------------------
(* optimize2Opt *)

(* getSegmentDistance(route, a, b) *)
getSegmentDistance(r, a, b) ==
  IF a >= Len(r) \/ b >= Len(r) THEN 0
  ELSE calculateDistance(At(r, a).coordinates.lat, At(r, a).coordinates.lng,
                         At(r, b).coordinates.lat, At(r, b).coordinates.lng)

(* the index pairs for which getSegmentDistance reaches calculateDistance *)
InRange(r, pairs) == {q \in pairs : ~(q[1] >= Len(r) \/ q[2] >= Len(r))}

(* (j + 1) % currentRoute.length *)
NextIndex(jj, n) == (jj + 1) % n

ImprovesOrEqual(swapped, cur) == swapped <= cur

(* the test swappedDist < currentDist *)
Improves(swapped, cur) == swapped < cur

ReverseSegmentKeepJ(r, a, b) ==
  Slice(r, 0, a + 1) \o Reverse(Slice(r, a + 1, b + 1)) \o Slice(r, b, Len(r))

ReverseSegmentFromI(r, a, b) ==
  Slice(r, 0, a) \o Reverse(Slice(r, a, b + 1)) \o Slice(r, b + 1, Len(r))

(* [...slice(0, i + 1), ...slice(i + 1, j + 1).reverse(), ...slice(j + 1)] *)
ReverseSegment(r, a, b) ==
  Slice(r, 0, a + 1) \o Reverse(Slice(r, a + 1, b + 1)) \o Slice(r, b + 1, Len(r))

WhileCondUncapped(imp, its, maxIts) == imp

(* the loop condition improved && iterations < maxIterations *)
WhileCond(imp, its, maxIts) == imp /\ its < maxIts

(* Routes of n stops with ids 1..n *)
Routes(n) == {[k \in 1..n |-> Stop(k, g[k])] : g \in [1..n -> Coords]}

(* optimize2Opt takes no start point; the start only measures the open
   path of its input and output *)
Starts == {Pt(0, 0), Pt(-3, 0)}

Init2Opt ==
  /\ pc = "twoOpt"
  /\ currentLocation \in Starts
  /\ \E n \in 0..MaxRoute : route \in Routes(n)
  /\ maxIterations \in 0..MaxIter
  /\ stores = <<>>
  /\ newStore = Stop(0, Pt(0, 0))
  /\ unvisited = <<>> /\ current = Pt(0, 0) /\ loops = 0
  /\ improved = FALSE /\ iterations = 0
  /\ currentRoute = <<>> /\ i = 0 /\ j = 0
  /\ currentDist = 0 /\ swappedDist = 0 /\ segs = {}
  /\ minIncrease = 0 /\ bestIndex = 0
  /\ result = <<>>
  /\ transportMode = "undefined"
  /\ totalDistance = 0 /\ totalTime = 0 /\ totalCost = 0

TwoOptFrameInPlace ==
  /\ UNCHANGED <<currentLocation, stores, unvisited, current, loops,
                 maxIterations, newStore, minIncrease, bestIndex,
                 transportMode, totalDistance, totalTime, totalCost>>
  /\ route' = IF pc = "twoOptFor" THEN currentRoute' ELSE route

TwoOptFrame ==
  UNCHANGED <<currentLocation, stores, route, unvisited, current, loops,
              maxIterations, newStore, minIncrease, bestIndex, transportMode,
              totalDistance, totalTime, totalCost>>

TwoOptCallUpTo4 ==
  /\ pc = "twoOpt"
  /\ IF Len(route) <= 4
     THEN /\ result' = route
          /\ pc' = "done"
          /\ UNCHANGED <<improved, iterations, currentRoute>>
     ELSE /\ improved' = TRUE
          /\ iterations' = 0
          /\ currentRoute' = route
          /\ pc' = "twoOptWhile"
          /\ UNCHANGED result
  /\ UNCHANGED <<i, j, currentDist, swappedDist, segs>>
  /\ TwoOptFrame

TwoOptCallEmpty ==
  /\ pc = "twoOpt"
  /\ IF Len(route) < 4
     THEN /\ result' = <<>>
          /\ pc' = "done"
          /\ UNCHANGED <<improved, iterations, currentRoute>>
     ELSE /\ improved' = TRUE
          /\ iterations' = 0
          /\ currentRoute' = route
          /\ pc' = "twoOptWhile"
          /\ UNCHANGED result
  /\ UNCHANGED <<i, j, currentDist, swappedDist, segs>>
  /\ TwoOptFrame

(* lines 59-66: the early return and the initialisation *)
TwoOptCall ==
  /\ pc = "twoOpt"
  /\ IF Len(route) < 4
     THEN /\ result' = route
          /\ pc' = "done"
          /\ UNCHANGED <<improved, iterations, currentRoute>>
     ELSE /\ improved' = TRUE
          /\ iterations' = 0
          /\ currentRoute' = route
          /\ pc' = "twoOptWhile"
          /\ UNCHANGED result
  /\ UNCHANGED <<i, j, currentDist, swappedDist, segs>>
  /\ TwoOptFrame

TwoOptPassFromOne ==
  /\ pc = "twoOptWhile"
  /\ WhileCond(improved, iterations, maxIterations)
  /\ improved' = FALSE
  /\ iterations' = iterations + 1
  /\ i' = 1
  /\ j' = 3
  /\ pc' = "twoOptFor"
  /\ UNCHANGED <<currentRoute, currentDist, swappedDist, segs, result>>
  /\ TwoOptFrame

(* lines 68-73: the loop condition holds and a pass begins at i = 0, j = 2 *)
TwoOptPass ==
  /\ pc = "twoOptWhile"
  /\ WhileCond(improved, iterations, maxIterations)
  /\ improved' = FALSE
  /\ iterations' = iterations + 1
  /\ i' = 0
  /\ j' = 2
  /\ pc' = "twoOptFor"
  /\ UNCHANGED <<currentRoute, currentDist, swappedDist, segs, result>>
  /\ TwoOptFrame

(* lines 72-94: the body of the inner loop for the pair (i, j), then the
   loop increments *)
TwoOptCompare ==
  /\ pc = "twoOptFor"
  /\ LET n == Len(currentRoute)
         nxt == NextIndex(j, n)
         cur == getSegmentDistance(currentRoute, i, i + 1)
                  + getSegmentDistance(currentRoute, j, nxt)
         swp == getSegmentDistance(currentRoute, i, j)
                  + getSegmentDistance(currentRoute, i + 1, nxt)
     IN  /\ currentDist' = cur
         /\ swappedDist' = swp
         /\ segs' = InRange(currentRoute,
                            {<<i, i + 1>>, <<j, nxt>>, <<i, j>>, <<i + 1, nxt>>})
         /\ IF Improves(swp, cur)
            THEN /\ currentRoute' = ReverseSegment(currentRoute, i, j)
                 /\ improved' = TRUE
            ELSE UNCHANGED <<currentRoute, improved>>
         /\ IF j + 1 < n
            THEN /\ j' = j + 1
                 /\ UNCHANGED <<i, pc>>
            ELSE IF i + 1 < n - 2
            THEN /\ i' = i + 1
                 /\ j' = i + 3
                 /\ UNCHANGED pc
            ELSE /\ pc' = "twoOptWhile"
                 /\ UNCHANGED <<i, j>>
  /\ UNCHANGED <<iterations, result>>
  /\ TwoOptFrame

(* line 98, reached when the loop condition fails *)
TwoOptReturn ==
  /\ pc = "twoOptWhile"
  /\ ~WhileCond(improved, iterations, maxIterations)
  /\ result' = currentRoute
  /\ pc' = "done"
  /\ UNCHANGED <<improved, iterations, currentRoute, i, j, currentDist,
                 swappedDist, segs>>
  /\ TwoOptFrame

Next2Opt == TwoOptCall \/ TwoOptPass \/ TwoOptCompare \/ TwoOptReturn

Spec2Opt == Init2Opt /\ [][Next2Opt]_vars

(* Coords is its own mirror image in both axes and distances do not change
   under reflection: the routes in which each mirrored point is preceded by
   its counterpart represent all routes *)
UpToReflection(r) ==
  \A k \in 1..Len(r) :
     /\ r[k].coordinates = Pt(-3, 0) =>
           \E m \in 1..(k - 1) : r[m].coordinates = Pt(3, 0)
     /\ r[k].coordinates = Pt(0, -4) =>
           \E m \in 1..(k - 1) : r[m].coordinates = Pt(0, 4)

(* optimize2Opt reads only the distances between the stops of the route,
   never the start point: one start and one route of each mirror class are
   enough to follow its loop to the end *)
InitTermination ==
  /\ Init2Opt
  /\ currentLocation = Pt(0, 0)
  /\ UpToReflection(route)

(* the loop is sequential code: every enabled step is eventually taken *)
FairSpec2Opt == InitTermination /\ [][Next2Opt]_vars /\ WF_vars(Next2Opt)

----------------------------------------------------------------------------
(* calculateTotalDistance *)

RECURSIVE SumLegsFromStart(_, _)
SumLegsFromStart(cur, r) ==
  IF r = <<>> THEN 0
  ELSE DistTo(cur, Head(r)) + SumLegsFromStart(cur, Tail(r))

RECURSIVE SumLegs(_, _)
SumLegs(cur, r) ==
  IF r = <<>> THEN 0
  ELSE DistTo(cur, Head(r)) + SumLegs(Head(r).coordinates, Tail(r))

calculateTotalDistance(loc, r) ==
  IF Len(r) = 0 THEN 0 ELSE SumLegs(loc, r)

----------------------------------------------------------------------------
(* Properties of optimize2Opt *)

(* C1: the open-path length from the start of the route returned by
   optimize2Opt is at most that of its input, and no accepted swap
   lengthens the open path *)
C1_MonotonicImprovement ==
  /\ (pc = "done" /\ Len(route) >= 4) =>
        calculateTotalDistance(currentLocation, result)
           <= calculateTotalDistance(currentLocation, route)
  /\ pc \in {"twoOptWhile", "twoOptFor"} =>
        calculateTotalDistance(currentLocation, currentRoute)
           <= calculateTotalDistance(currentLocation, route)

(* C2: a comparison with j at the last position hands no pair ending at
   route[0] to the distance function, and the edge leaving the last stop
   contributes nothing *)
C2_OpenPathNoWrap ==
  (pc \in {"twoOptWhile", "twoOptFor"} /\ segs # {}) =>
     \A q \in segs : q[2] # 0

IsPermutation(r, orig) ==
  /\ Len(r) = Len(orig)
  /\ \A k \in 1..Len(orig) : Occurrences(r, orig[k]) = 1

(* C3: the working route after any accepted reversals, and the returned
   route, have the length of the input and hold each input stop exactly
   once *)
C3_TwoOptPermutation ==
  /\ pc \in {"twoOptWhile", "twoOptFor"} => IsPermutation(currentRoute, route)
  /\ pc = "done" => IsPermutation(result, route)

C3_Witness ==
  /\ pc = "done"
  /\ Len(route) >= 4
  /\ result # route
  /\ IsPermutation(result, route)

(* C7: optimize2Opt terminates; it begins at most maxIterations passes, a
   pass without an accepted swap is followed by the return of the working
   route, and with maxIterations = 0 no pass begins and the input order is
   returned *)
C7_Terminates ==
  /\ [](iterations <= maxIterations)
  /\ [][(pc = "twoOptWhile" /\ iterations >= 1 /\ ~improved) =>
           (pc' = "done" /\ result' = currentRoute)]_vars
  /\ []((pc = "done" /\ maxIterations = 0) => (iterations = 0 /\ result = route))
  /\ <>(pc = "done")

(* a run ended by the cap while the last pass had accepted a swap *)
C7_Witness ==
  /\ pc = "done"
  /\ Len(route) >= 4
  /\ maxIterations >= 1
  /\ iterations = maxIterations
  /\ improved

(* C8: a route of fewer than 4 stops is returned unchanged, in the same
   order, whatever maxIterations is *)
C8_SmallRouteIdentity ==
  (pc = "done" /\ Len(route) < 4) => (result = route /\ iterations = 0)

C8_Witness ==
  /\ pc = "done"
  /\ Len(route) = 3
  /\ maxIterations >= 1
  /\ result = route

----------------------------------------------------------------------------
(* findOptimalInsertionPoint *)

InsertAtSkip(r, k, s) == Slice(r, 0, k) \o <<s>> \o Slice(r, k + 1, Len(r))

InsertAtTruncate(r, k, s) == Slice(r, 0, k) \o <<s>>

(* testRoute: [...route.slice(0, i), newStore, ...route.slice(i)] *)
InsertAt(r, k, s) == Slice(r, 0, k) \o <<s>> \o Slice(r, k, Len(r))

LowerOrEqualIncrease(increase, minInc) == increase <= minInc

HigherIncrease(increase, minInc) == increase > minInc

(* the test increase < minIncrease *)
LowerIncrease(increase, minInc) == increase < minInc

InitInsert ==
  /\ pc = "insert"
  /\ currentLocation \in Coords
  /\ \E n \in 0..MaxInsert :
        /\ route \in Routes(n)
        /\ \E p \in Coords : newStore = Stop(n + 1, p)
  /\ stores = <<>>
  /\ Idle

InsertFrame ==
  UNCHANGED <<currentLocation, stores, route, unvisited, current, loops,
              maxIterations, improved, iterations, currentRoute, j,
              currentDist, swappedDist, segs, newStore, transportMode,
              totalDistance, totalTime, totalCost>>

(* lines 202-211: the early return and the initialisation *)
InsertCall ==
  /\ pc = "insert"
  /\ IF Len(route) = 0
     THEN /\ result' = 0
          /\ pc' = "done"
          /\ UNCHANGED <<minIncrease, bestIndex, i>>
     ELSE /\ minIncrease' = Infinity
          /\ bestIndex' = Len(route)
          /\ i' = 0
          /\ pc' = "insertFor"
          /\ UNCHANGED result
  /\ InsertFrame

(* lines 211-226: the loop body for the candidate index i *)
InsertTry ==
  /\ pc = "insertFor"
  /\ i <= Len(route)
  /\ LET testRoute == InsertAt(route, i, newStore)
         newDistance == calculateTotalDistance(currentLocation, testRoute)
         currentDistance == calculateTotalDistance(currentLocation, route)
         increase == newDistance - currentDistance
     IN  IF LowerIncrease(increase, minIncrease)
         THEN /\ minIncrease' = increase
              /\ bestIndex' = i
         ELSE UNCHANGED <<minIncrease, bestIndex>>
  /\ i' = i + 1
  /\ UNCHANGED <<pc, result>>
  /\ InsertFrame

(* line 228 *)
InsertReturn ==
  /\ pc = "insertFor"
  /\ ~(i <= Len(route))
  /\ result' = bestIndex
  /\ pc' = "done"
  /\ UNCHANGED <<minIncrease, bestIndex, i>>
  /\ InsertFrame

NextInsert == InsertCall \/ InsertTry \/ InsertReturn

SpecInsert == InitInsert /\ [][NextInsert]_vars

----------------------------------------------------------------------------
(* Properties of findOptimalInsertionPoint *)

TotalWith(k) ==
  calculateTotalDistance(currentLocation, InsertAt(route, k, newStore))

(* C9: for a non-empty route the returned index gives the smallest total
   path distance from the start among the indices 0..len(route), and is the
   smallest index that does *)
C9_BestInsertionIndex ==
  (pc = "done" /\ Len(route) >= 1) =>
     /\ result \in 0..Len(route)
     /\ \A k \in 0..Len(route) : TotalWith(result) <= TotalWith(k)
     /\ \A k \in 0..(result - 1) : TotalWith(k) > TotalWith(result)

(* two indices share the smallest total and the one returned is not the
   last of the range *)
C9_Witness ==
  /\ pc = "done"
  /\ Len(route) >= 2
  /\ \E k \in 0..Len(route) : k > result /\ TotalWith(k) = TotalWith(result)
  /\ \E k \in 0..Len(route) : TotalWith(k) > TotalWith(result)

(* C10: the returned index lies in 0..len(route), and the route with
   newStore inserted there holds newStore once and every original stop once,
   in the original relative order *)
C10_InsertionKeepsStops ==
  pc = "done" =>
     /\ result \in 0..Len(route)
     /\ LET r == InsertAt(route, result, newStore)
        IN  /\ Len(r) = Len(route) + 1
            /\ Occurrences(r, newStore) = 1
            /\ SelectSeq(r, LAMBDA s : s # newStore) = route

C10_Witness ==
  /\ pc = "done"
  /\ Len(route) >= 2
  /\ result > 0
  /\ result < Len(route)

(* C11: for a two-stop route whose first stop is closer to the start than
   its second, and a newStore at the start point, the returned index is 0 *)
C11_InsertAtStart ==
  (/\ pc = "done"
   /\ Len(route) = 2
   /\ DistTo(currentLocation, route[1]) < DistTo(currentLocation, route[2])
   /\ newStore.coordinates = currentLocation) => result = 0

(* the case of the claim, with index 1 costing as little as index 0 *)
C11_Witness ==
  /\ pc = "done"
  /\ Len(route) = 2
  /\ DistTo(currentLocation, route[1]) < DistTo(currentLocation, route[2])
  /\ newStore.coordinates = currentLocation
  /\ TotalWith(1) = TotalWith(0)
  /\ result = 0

----------------------------------------------------------------------------
(* calculateRouteStats.  Distances, minutes and dollars are carried in
   thousandths; the returned record holds the rounded values: hundredths of
   a mile, whole minutes, cents *)

(* Math.round(x / unit) for x >= 0: to the nearest whole, halves upwards *)
Round(x, unit) == (x + unit \div 2) \div unit

NeverEmpty(r) == FALSE

(* !route || route.length === 0 *)
EmptyRoute(r) == Len(r) = 0

WalkHours(d) == d \div 3

WalkMinutesRounded(d) == Round((d * 60) \div 3, 1000) * 1000

(* (distance / 3) * 60: 3 mph, in minutes *)
WalkMinutes(d) == (d * 60) \div 3

SubwayCostPerStop(n) == n * 3000

(* (route.length * 15) + 20 minutes *)
SubwayTime(n) == (n * 15000) + 20000

(* (route.length + 1) * 3.00 *)
SubwayCost(n) == (n + 1) * 3000

WalkUpToThreshold(d) == d <= 500

WalkUpToMile(d) == d < 1000

(* segmentDistance < 0.5 *)
IsWalk(d) == d < 500

ModeOfWalking(arg) == IF arg = "undefined" THEN "walking" ELSE arg

(* the transportMode parameter with its default value *)
ModeOf(arg) == IF arg = "undefined" THEN "mixed" ELSE arg

(* Points of a street, in thousandths of a mile *)
StatsCoords == {Pt(0, 0), Pt(123, 0), Pt(500, 0), Pt(623, 0), Pt(1500, 0)}

StatsRoutes(n) == {[k \in 1..n |-> Stop(k, g[k])] : g \in [1..n -> StatsCoords]}

ModeArgs == {"walking", "subway", "mixed", "bus", "undefined"}

InitStats ==
  /\ pc = "stats"
  /\ currentLocation \in StatsCoords
  /\ \E n \in 0..MaxStats : route \in StatsRoutes(n)
  /\ transportMode \in ModeArgs
  /\ stores = <<>>
  /\ newStore = Stop(0, Pt(0, 0))
  /\ unvisited = <<>> /\ current = Pt(0, 0) /\ loops = 0
  /\ maxIterations = 0 /\ improved = FALSE /\ iterations = 0
  /\ currentRoute = <<>> /\ i = 0 /\ j = 0
  /\ currentDist = 0 /\ swappedDist = 0 /\ segs = {}
  /\ minIncrease = 0 /\ bestIndex = 0
  /\ result = <<>>
  /\ totalDistance = 0 /\ totalTime = 0 /\ totalCost = 0

StatsFrame ==
  UNCHANGED <<currentLocation, stores, route, unvisited, loops,
              maxIterations, improved, iterations, currentRoute, j,
              currentDist, swappedDist, segs, newStore, minIncrease,
              bestIndex, transportMode>>

(* lines 142-156: the early return, then the total distance *)
StatsCall ==
  /\ pc = "stats"
  /\ IF EmptyRoute(route)
     THEN /\ result' = [totalDistance |-> 0, totalTime |-> 0,
                        totalCost |-> 0, stops |-> 0]
          /\ pc' = "done"
          /\ UNCHANGED <<totalDistance, totalTime, totalCost>>
     ELSE /\ totalDistance' = calculateTotalDistance(currentLocation, route)
          /\ totalTime' = 0
          /\ totalCost' = 0
          /\ pc' = "statsMode"
          /\ UNCHANGED result
  /\ UNCHANGED <<current, i>>
  /\ StatsFrame

(* lines 158-160 *)
StatsWalking ==
  /\ pc = "statsMode"
  /\ ModeOf(transportMode) = "walking"
  /\ totalTime' = WalkMinutes(totalDistance)
  /\ totalCost' = 0
  /\ pc' = "statsReturn"
  /\ UNCHANGED <<totalDistance, current, i, result>>
  /\ StatsFrame

(* lines 161-164 *)
StatsSubway ==
  /\ pc = "statsMode"
  /\ ModeOf(transportMode) = "subway"
  /\ totalTime' = SubwayTime(Len(route))
  /\ totalCost' = SubwayCost(Len(route))
  /\ pc' = "statsReturn"
  /\ UNCHANGED <<totalDistance, current, i, result>>
  /\ StatsFrame

(* lines 165-168: the else branch starts the walk over the legs *)
StatsMixed ==
  /\ pc = "statsMode"
  /\ ModeOf(transportMode) \notin {"walking", "subway"}
  /\ current' = currentLocation
  /\ i' = 0
  /\ pc' = "statsFor"
  /\ UNCHANGED <<totalDistance, totalTime, totalCost, result>>
  /\ StatsFrame

(* lines 169-187: the loop body for the leg ending at route[i] *)
StatsLeg ==
  /\ pc = "statsFor"
  /\ i < Len(route)
  /\ LET store == At(route, i)
         segmentDistance == DistTo(current, store)
     IN  /\ IF IsWalk(segmentDistance)
            THEN /\ totalTime' = totalTime + WalkMinutes(segmentDistance)
                 /\ UNCHANGED totalCost
            ELSE /\ totalTime' = totalTime + 15000
                 /\ totalCost' = totalCost + 3000
         /\ current' = store.coordinates
  /\ i' = i + 1
  /\ UNCHANGED <<pc, totalDistance, result>>
  /\ StatsFrame

(* lines 190-195: the rounded record *)
StatsReturn ==
  /\ \/ pc = "statsReturn"
     \/ pc = "statsFor" /\ ~(i < Len(route))
  /\ result' = [totalDistance |-> Round(totalDistance, 10),
                totalTime |-> Round(totalTime, 1000),
                totalCost |-> Round(totalCost, 10),
                stops |-> Len(route)]
  /\ pc' = "done"
  /\ UNCHANGED <<totalDistance, totalTime, totalCost, current, i>>
  /\ StatsFrame

NextStats ==
  \/ StatsCall \/ StatsWalking \/ StatsSubway \/ StatsMixed \/ StatsLeg
  \/ StatsReturn

SpecStats == InitStats /\ [][NextStats]_vars

----------------------------------------------------------------------------
(* Properties of calculateRouteStats *)

RECURSIVE SeqSum(_)
SeqSum(q) == IF q = <<>> THEN 0 ELSE Head(q) + SeqSum(Tail(q))

(* the k-th leg of the path start -> route[1] -> ... *)
Leg(k) == DistTo(PrevPos(route, k), route[k])

Legs(n) == [k \in 1..n |-> Leg(k)]

(* what a leg adds to the time in mixed mode, in thousandths of a minute *)
MixedMinutes(d) == IF d < 500 THEN 20 * d ELSE 15000

MixedTime(n) == SeqSum([k \in 1..n |-> MixedMinutes(Leg(k))])

FareLegs(n) == Cardinality({k \in 1..n : Leg(k) >= 500})

(* v whole units are the nearest whole number of units to x thousandths,
   halves upwards *)
Nearest(v, x, unit) == v * unit - unit \div 2 <= x /\ x < v * unit + unit \div 2

StatsRunning == pc \in {"statsMode", "statsFor", "statsReturn"}

StatsDone == pc = "done" /\ Len(route) >= 1

(* C13: for a non-empty route the total distance is the sum of the legs
   start -> route[0] -> ... -> route[n-1], without a leg back to the start,
   the reported distance is that sum to two decimals and the reported stop
   count is len(route) *)
C13_TotalIsSumOfLegs ==
  /\ StatsRunning => totalDistance = SeqSum(Legs(Len(route)))
  /\ StatsDone =>
        /\ Nearest(result.totalDistance, SeqSum(Legs(Len(route))), 10)
        /\ result.stops = Len(route)

C13_Witness ==
  /\ StatsDone
  /\ Len(route) = 3
  /\ route[3].coordinates # currentLocation
  /\ \A k \in 1..3 : Leg(k) > 0
  /\ SeqSum(Legs(3)) # result.totalDistance * 10
  /\ result.stops = 3

(* C14: in walking mode the cost is 0 and the time is (unrounded total
   distance / 3) * 60 to the nearest minute; one stop 1.5 miles from the
   start gives 30 minutes *)
C14_WalkingMode ==
  (StatsDone /\ transportMode = "walking") =>
     /\ result.totalCost = 0
     /\ Nearest(result.totalTime, 20 * SeqSum(Legs(Len(route))), 1000)
     /\ (Len(route) = 1 /\ Leg(1) = 1500) => result.totalTime = 30

C14_Witness ==
  /\ StatsDone
  /\ transportMode = "walking"
  /\ Len(route) = 1
  /\ Leg(1) = 1500
  /\ result.totalTime = 30
  /\ result.totalCost = 0

(* C15: in subway mode a route of n stops reports n * 15 + 20 minutes and
   (n + 1) * 3.00 dollars, whatever the coordinates and the start *)
C15_SubwayMode ==
  (StatsDone /\ transportMode = "subway") =>
     /\ result.totalTime = Len(route) * 15 + 20
     /\ result.totalCost = (Len(route) + 1) * 300

C15_Witness ==
  /\ StatsDone
  /\ transportMode = "subway"
  /\ Len(route) = 3
  /\ SeqSum(Legs(3)) > 1500
  /\ result.totalTime = 65
  /\ result.totalCost = 1200

(* C16: in mixed mode each leg shorter than 0.5 miles adds (leg / 3) * 60
   minutes and no cost, each leg of 0.5 miles or more adds 15 minutes and
   one 3.00 fare; the cost is 3.00 times the number of legs of 0.5 miles or
   more *)
C16_MixedMode ==
  /\ (pc = "statsFor" /\ transportMode = "mixed") =>
        /\ totalTime = MixedTime(i)
        /\ totalCost = 3000 * FareLegs(i)
  /\ (StatsDone /\ transportMode = "mixed") =>
        /\ Nearest(result.totalTime, MixedTime(Len(route)), 1000)
        /\ result.totalCost = 300 * FareLegs(Len(route))

(* a route with a leg of exactly 0.5 miles and a shorter one *)
C16_Witness ==
  /\ StatsDone
  /\ transportMode = "mixed"
  /\ \E k \in 1..Len(route) : Leg(k) = 500
  /\ \E k \in 1..Len(route) : Leg(k) > 0 /\ Leg(k) < 500
  /\ result.totalCost = 300 * FareLegs(Len(route))

(* the unrounded time of the mode *)
ExactTime ==
  IF transportMode = "walking" THEN 20 * SeqSum(Legs(Len(route)))
  ELSE MixedTime(Len(route))

(* C17: the sums are accumulated unrounded and only the returned values are
   rounded: the time reported in walking and mixed mode is the unrounded
   sum of the contributions to the nearest minute, the cost is reported in
   whole cents *)
C17_RoundedOnce ==
  transportMode \in {"walking", "mixed"} =>
     /\ pc = "statsReturn" => totalTime = ExactTime
     /\ (pc = "statsFor" /\ i = Len(route)) => totalTime = ExactTime
     /\ StatsDone =>
           /\ Nearest(result.totalTime, ExactTime, 1000)
           /\ result.totalCost * 10 = totalCost

(* the rounded contributions of the legs add up to another number of
   minutes than the one reported *)
C17_Witness ==
  /\ StatsDone
  /\ transportMode = "mixed"
  /\ SeqSum([k \in 1..Len(route) |-> Round(MixedMinutes(Leg(k)), 1000)])
        # result.totalTime
  /\ Nearest(result.totalTime, ExactTime, 1000)

----------------------------------------------------------------------------
(* The crossing scenario: start (0,0) and the stops (0,1), (1,0), (1,1),
   (0,0.5), in thousandths *)

CrossingStops ==
  {Stop(1, Pt(0, 1000)), Stop(2, Pt(1000, 0)), Stop(3, Pt(1000, 1000)),
   Stop(4, Pt(0, 500))}

InitCrossing ==
  /\ pc = "twoOpt"
  /\ currentLocation = Pt(0, 0)
  /\ route \in {r \in [1..4 -> CrossingStops] :
                  \A a, b \in 1..4 : a # b => r[a] # r[b]}
  /\ maxIterations \in 0..MaxIter
  /\ stores = <<>>
  /\ newStore = Stop(0, Pt(0, 0))
  /\ unvisited = <<>> /\ current = Pt(0, 0) /\ loops = 0
  /\ improved = FALSE /\ iterations = 0
  /\ currentRoute = <<>> /\ i = 0 /\ j = 0
  /\ currentDist = 0 /\ swappedDist = 0 /\ segs = {}
  /\ minIncrease = 0 /\ bestIndex = 0
  /\ result = <<>>
  /\ transportMode = "undefined"
  /\ totalDistance = 0 /\ totalTime = 0 /\ totalCost = 0

SpecCrossing == InitCrossing /\ [][Next2Opt]_vars

(* sign of the turn a -> b -> c, on coordinates counted in half miles *)
Orient(a, b, c) ==
  LET v == ((b.lat - a.lat) \div 500) * ((c.lng - a.lng) \div 500)
             - ((b.lng - a.lng) \div 500) * ((c.lat - a.lat) \div 500)
  IN  IF v > 0 THEN 1 ELSE IF v < 0 THEN -1 ELSE 0

(* the legs a-b and c-d cross at a point interior to both *)
LegsCross(a, b, c, d) ==
  /\ Orient(a, b, c) * Orient(a, b, d) < 0
  /\ Orient(c, d, a) * Orient(c, d, b) < 0

(* the points of the path from the start through r, numbered from 0 *)
PathPoint(r, k) == IF k = 0 THEN currentLocation ELSE r[k].coordinates

PathCrosses(r) ==
  \E x, y \in 1..Len(r) :
     /\ x < y
     /\ LegsCross(PathPoint(r, x - 1), PathPoint(r, x),
                  PathPoint(r, y - 1), PathPoint(r, y))

(* the run ended with a pass that accepted no swap, as it does under the
   default cap of 100 passes *)
Converged == pc = "done" /\ ~improved

(* C19 as stated: from every order of the four stops whose path crosses
   itself, the returned order has a path without crossing and a strictly
   smaller total length from the start *)
C19_CrossingRemovedAnyOrder ==
  (Converged /\ PathCrosses(route)) =>
     /\ ~PathCrosses(result)
     /\ calculateTotalDistance(currentLocation, result)
           < calculateTotalDistance(currentLocation, route)

(* C19 amended: the same, for the crossing orders whose first stop is not
   (1,1) *)
C19_CrossingRemoved ==
  (Converged /\ PathCrosses(route) /\ route[1].coordinates # Pt(1000, 1000)) =>
     /\ ~PathCrosses(result)
     /\ calculateTotalDistance(currentLocation, result)
           < calculateTotalDistance(currentLocation, route)

(* the order (0,1), (1,0), (1,1), (0,0.5) refined to a path without
   crossing *)
C19_Witness ==
  /\ Converged
  /\ Ids(route) = <<1, 2, 3, 4>>
  /\ PathCrosses(route)
  /\ ~PathCrosses(result)
  /\ result # route

----------------------------------------------------------------------------
(* The four functions together: a behaviour is one call of one of them *)

Init == InitGreedy \/ Init2Opt \/ InitInsert \/ InitStats

Next == NextGreedy \/ Next2Opt \/ NextInsert \/ NextStats

Spec == Init /\ [][Next]_vars

ZeroStats == [totalDistance |-> 0, totalTime |-> 0, totalCost |-> 0, stops |-> 0]

(* C18: the degenerate inputs return at once with the zero or identity
   result: greedy gives the empty route for no stop and the one stop for a
   single stop, 2-opt gives back a route of fewer than 4 stops, the stats of
   an empty route are all zero in every mode, and the insertion index of an
   empty route is 0 *)
C18_DegenerateInputs ==
  [][/\ (pc = "greedy" /\ Len(stores) = 0) => (pc' = "done" /\ result' = <<>>)
     /\ (pc = "greedy" /\ Len(stores) = 1) =>
           (pc' = "done" /\ result' = <<stores[1]>>)
     /\ (pc = "twoOpt" /\ Len(route) < 4) => (pc' = "done" /\ result' = route)
     /\ (pc = "stats" /\ Len(route) = 0) => (pc' = "done" /\ result' = ZeroStats)
     /\ (pc = "insert" /\ Len(route) = 0) => (pc' = "done" /\ result' = 0)]_vars

(* the stats of an empty route asked in subway mode *)
C18_Witness ==
  /\ pc = "done"
  /\ transportMode = "subway"
  /\ Len(route) = 0
  /\ result = ZeroStats

(* C20: no step of any of the functions changes an argument: the start
   point, the stops list, the route handed to 2-opt, to the stats and to the
   insertion, maxIterations and newStore stay element for element what they
   were *)
C20_ArgumentsUntouched ==
  [][/\ currentLocation' = currentLocation
     /\ stores' = stores
     /\ newStore' = newStore
     /\ maxIterations' = maxIterations
     /\ pc \notin {"greedy", "greedyWhile", "greedyReturn"} => route' = route]_vars

(* 2-opt has reordered its working copy and returned it; the argument is
   in its input order *)
C20_Witness ==
  /\ pc = "done"
  /\ iterations >= 1
  /\ Len(route) >= 4
  /\ currentRoute # route
  /\ result = currentRoute
  /\ Ids(route) = [k \in 1..Len(route) |-> k]

----------------------------------------------------------------------------
(* Stops with caller metadata: a third field the functions never read *)

TaggedStop(k, p, m) == [id |-> k, coordinates |-> p, name |-> m]

CarryCoords == {Pt(0, 0), Pt(3, 0), Pt(0, 4)}

(* Lists of n stops, ids repeating in every pattern, each stop carrying its
   own metadata *)
TaggedLists(n) ==
  {[k \in 1..n |-> TaggedStop(f[k], g[k], k)] :
     f \in {h \in [1..n -> 1..n] : \A k \in 1..n : h[k] <= k},
     g \in [1..n -> CarryCoords]}

TaggedRoutes(n) ==
  {[k \in 1..n |-> TaggedStop(k, g[k], k)] : g \in [1..n -> CarryCoords]}

(* a call of optimizeRouteGreedy or of optimize2Opt on such stops *)
InitCarry ==
  /\ currentLocation = Pt(0, 0)
  /\ newStore = Stop(0, Pt(0, 0))
  /\ unvisited = <<>> /\ current = Pt(0, 0) /\ loops = 0
  /\ improved = FALSE /\ iterations = 0
  /\ currentRoute = <<>> /\ i = 0 /\ j = 0
  /\ currentDist = 0 /\ swappedDist = 0 /\ segs = {}
  /\ minIncrease = 0 /\ bestIndex = 0
  /\ result = <<>>
  /\ transportMode = "undefined"
  /\ totalDistance = 0 /\ totalTime = 0 /\ totalCost = 0
  /\ \/ /\ pc = "greedy"
        /\ \E n \in 0..MaxStores : stores \in TaggedLists(n)
        /\ route = <<>>
        /\ maxIterations = 0
     \/ /\ pc = "twoOpt"
        /\ \E n \in 1..MaxRoute : route \in TaggedRoutes(n)
        /\ stores = <<>>
        /\ maxIterations \in 0..MaxIter

NextCarry == NextGreedy \/ Next2Opt

SpecCarry == InitCarry /\ [][NextCarry]_vars

(* every element of r is an element of input, field for field *)
Among(r, input) ==
  \A k \in 1..Len(r) : \E m \in 1..Len(input) : r[k] = input[m]

(* C21: every element of the route being built or refined, and of the route
   returned by optimizeRouteGreedy or optimize2Opt, is one of the input stop
   records, with its id, coordinates and metadata as they were handed in *)
C21_StopsCarriedWhole ==
  /\ pc \in {"greedyWhile", "greedyReturn"} => Among(route, stores)
  /\ pc \in {"twoOptWhile", "twoOptFor"} => Among(currentRoute, route)
  /\ pc = "done" => Among(result, IF stores # <<>> THEN stores ELSE route)

(* a greedy route that does not begin with the first input stop, the
   metadata of the stops having moved with them *)
C21_Witness ==
  /\ pc = "done"
  /\ Len(stores) >= 3
  /\ Len(result) = Len(stores)
  /\ result[1].name # 1
  /\ \A k \in 1..Len(result) : result[k] = stores[result[k].name]

----------------------------------------------------------------------------
(* Further properties of optimize2Opt *)

(* C22: a swap is applied only when the swapped length is strictly below
   the current one, and the comparison that follows an applied swap is the
   first pair, i = 0 and j = 2, on the mutated route *)
C22_FirstImprovementRestart ==
  [][(pc = "twoOptFor" /\ currentRoute' # currentRoute) =>
        /\ swappedDist' < currentDist'
        /\ pc' = "twoOptFor"
        /\ i' = 0
        /\ j' = 2]_vars

(* maxIterations = 100, the default value of the parameter *)
DefaultMaxIterations == 100

(* a call that leaves maxIterations out *)
InitDefaultCap ==
  /\ pc = "twoOpt"
  /\ currentLocation = Pt(0, 0)
  /\ \E n \in 0..MaxRoute : route \in Routes(n)
  /\ maxIterations = DefaultMaxIterations
  /\ stores = <<>>
  /\ newStore = Stop(0, Pt(0, 0))
  /\ unvisited = <<>> /\ current = Pt(0, 0) /\ loops = 0
  /\ improved = FALSE /\ iterations = 0
  /\ currentRoute = <<>> /\ i = 0 /\ j = 0
  /\ currentDist = 0 /\ swappedDist = 0 /\ segs = {}
  /\ minIncrease = 0 /\ bestIndex = 0
  /\ result = <<>>
  /\ transportMode = "undefined"
  /\ totalDistance = 0 /\ totalTime = 0 /\ totalCost = 0

SpecDefaultCap == InitDefaultCap /\ [][Next2Opt]_vars

(* length of the closed cycle r[1] -> ... -> r[n] -> r[1] over the stops *)
Cycle(r) ==
  SeqSum([k \in 1..Len(r) |-> DistTo(r[k].coordinates, r[(k % Len(r)) + 1])])

(* C23: every applied swap, with j below the last position or at it, makes
   the closed cycle over the stops strictly shorter, so a working route that
   differs from the input is strictly shorter than it, and under the default
   cap the loop ends by a pass without a swap, never by the cap *)
C23_CycleStrictlyShorter ==
  /\ [][(pc = "twoOptFor" /\ currentRoute' # currentRoute) =>
           Cycle(currentRoute') < Cycle(currentRoute)]_vars
  /\ []((pc \in {"twoOptWhile", "twoOptFor"} /\ currentRoute # route) =>
           Cycle(currentRoute) < Cycle(route))
  /\ []((pc = "done" /\ Len(route) >= 4) =>
           (~improved /\ iterations < maxIterations))

(* a pass whose last comparison, with j at the last position, applied a
   swap *)
C23_Witness ==
  /\ pc = "twoOptWhile"
  /\ iterations >= 1
  /\ j = Len(currentRoute) - 1
  /\ swappedDist < currentDist
  /\ Cycle(currentRoute) < Cycle(route)

(* C24: the first stop stays where it is: position 0 of the working route
   and of the returned route holds the stop at position 0 of the input, and
   no comparison involves the start point *)
C24_FirstStopFixed ==
  /\ (pc \in {"twoOptWhile", "twoOptFor"} /\ Len(route) >= 1) =>
        currentRoute[1] = route[1]
  /\ (pc = "done" /\ Len(route) >= 1) => result[1] = route[1]
  /\ \A q \in segs : q[1] \in 0..(Len(route) - 1) /\ q[2] \in 0..(Len(route) - 1)

(* a reordered route whose first stop is farther from the start than its
   second *)
C24_Witness ==
  /\ pc = "done"
  /\ Len(route) >= 4
  /\ result # route
  /\ result[1] = route[1]
  /\ DistTo(currentLocation, result[1]) > DistTo(currentLocation, result[2])

(* the two sums of the move test for the pair (a, b) of r *)
CurrentEdges(r, a, b) ==
  getSegmentDistance(r, a, a + 1) + getSegmentDistance(r, b, (b + 1) % Len(r))

SwappedEdges(r, a, b) ==
  getSegmentDistance(r, a, b) + getSegmentDistance(r, a + 1, (b + 1) % Len(r))

(* C25: a route returned after a pass that applied no swap has no pair
   (a, b), 0 <= a and a + 2 <= b <= n - 1, whose swapped sum is strictly
   below its current sum *)
C25_LocallyOptimal ==
  (pc = "done" /\ Len(route) >= 4 /\ ~improved) =>
     \A a \in 0..(Len(result) - 3) :
        \A b \in (a + 2)..(Len(result) - 1) :
           ~(SwappedEdges(result, a, b) < CurrentEdges(result, a, b))

(* a reordered route returned after a second pass that applied no swap *)
C25_Witness ==
  /\ pc = "done"
  /\ Len(route) >= 4
  /\ ~improved
  /\ iterations = 2
  /\ result # route

----------------------------------------------------------------------------
(* Further properties of optimizeRouteGreedy *)

IdSet(ss) == {ss[k].id : k \in 1..Len(ss)}

(* the first stop of ss carrying the id *)
FirstWithId(ss, id) == ss[MinIdx({k \in 1..Len(ss) : ss[k].id = id})]

(* C26: for an input in which two or more stops share an id, the returned
   route holds one stop for each distinct id, namely the first input stop
   carrying it, and is shorter than the input *)
C26_DuplicateIdsDropped ==
  (pc = "done" /\ ~DistinctIds(stores)) =>
     /\ Len(result) = Cardinality(IdSet(stores))
     /\ Len(result) < Len(stores)
     /\ DistinctIds(result)
     /\ \A k \in 1..Len(result) : result[k] = FirstWithId(stores, result[k].id)

(* the stop left out lies elsewhere than the stop kept for its id *)
C26_Witness ==
  /\ pc = "done"
  /\ Len(stores) = 3
  /\ Len(result) = 2
  /\ \E k \in 2..3 :
        /\ stores[k].id = stores[1].id
        /\ stores[k].coordinates # stores[1].coordinates
        /\ \A m \in 1..2 : result[m] # stores[k]

----------------------------------------------------------------------------
(* optimizeRouteGreedy on coordinates that are not numbers *)

NaNCoords == {Pt(0, 0), Pt(3, 0), Pt(NaN, 0), Pt(0, NaN)}

IsNaNPoint(p) == p.lat = NaN \/ p.lng = NaN

InitNaN ==
  /\ pc = "greedy"
  /\ currentLocation \in NaNCoords
  /\ \E n \in 0..MaxStores :
        stores \in {[k \in 1..n |-> Stop(k, g[k])] : g \in [1..n -> NaNCoords]}
  /\ route = <<>>
  /\ newStore = Stop(0, Pt(0, 0))
  /\ Idle

SpecNaN == InitNaN /\ [][NextGreedy]_vars

(* C27: an iteration of the while loop in which every unvisited stop is at
   distance NaN from the current position appends nothing and leaves the
   loop, and the route built so far is returned; any other iteration
   appends a stop whose distance is a number; so a returned route of an
   input of two or more stops holds no stop without a position *)
C27_PartialRouteOnNaN ==
  /\ [][(pc = "greedyWhile" /\ Len(unvisited) > 0) =>
          LET U == UnvisitedIdx(stores, unvisited)
          IN  IF \A k \in U : DistTo(current, stores[k]) = NaN
              THEN pc' = "greedyReturn" /\ route' = route
              ELSE \E k \in U :
                      /\ DistTo(current, stores[k]) # NaN
                      /\ route' = Append(route, stores[k])]_vars
  /\ [][pc = "greedyReturn" => (pc' = "done" /\ result' = route)]_vars
  /\ []((pc = "done" /\ Len(stores) >= 2) =>
          /\ \A k \in 1..Len(result) : ~IsNaNPoint(result[k].coordinates)
          /\ Len(result) =
               IF IsNaNPoint(currentLocation) THEN 0
               ELSE Cardinality({k \in 1..Len(stores) :
                                   ~IsNaNPoint(stores[k].coordinates)}))

(* one stop placed, then a second iteration that found no stop at a
   distance below Infinity and left two stops out *)
C27_Witness ==
  /\ pc = "done"
  /\ Len(stores) = 3
  /\ Len(result) = 1
  /\ loops = 2
  /\ \E k \in 1..3 : IsNaNPoint(stores[k].coordinates) /\ result[1] # stores[k]

----------------------------------------------------------------------------
(* Further properties of calculateRouteStats *)

(* C28: for a non-empty route of n stops the mixed result stays within the
   subway result: the cost is at most n fares, below the n + 1 fares of
   subway mode, and the time is at most 15 n minutes, below the 15 n + 20
   minutes of subway mode *)
C28_MixedWithinSubway ==
  (StatsDone /\ transportMode = "mixed") =>
     /\ result.totalCost <= Len(route) * 300
     /\ result.totalCost < Round(SubwayCost(Len(route)), 10)
     /\ result.totalTime <= 15 * Len(route)
     /\ result.totalTime < Round(SubwayTime(Len(route)), 1000)

(* three legs of half a mile or more: both bounds are attained *)
C28_Witness ==
  /\ StatsDone
  /\ transportMode = "mixed"
  /\ Len(route) = 3
  /\ FareLegs(3) = 3
  /\ result.totalCost = 900
  /\ result.totalTime = 45

(* the record of mixed mode for the start and the route *)
MixedStats ==
  [totalDistance |-> Round(SeqSum(Legs(Len(route))), 10),
   totalTime |-> Round(MixedTime(Len(route)), 1000),
   totalCost |-> 300 * FareLegs(Len(route)),
   stops |-> Len(route)]

(* C29: every mode other than walking and subway, the omitted one and an
   unknown one included, takes the per-leg branch and returns the record of
   mixed mode *)
C29_OtherModesAreMixed ==
  /\ (pc = "statsFor" /\ transportMode \notin {"walking", "subway"}) =>
        /\ totalTime = MixedTime(i)
        /\ totalCost = 3000 * FareLegs(i)
  /\ (pc = "statsReturn") => transportMode \in {"walking", "subway"}
  /\ (StatsDone /\ transportMode \notin {"walking", "subway"}) =>
        result = MixedStats

(* an unknown mode on a route with a walked leg and a fare leg *)
C29_Witness ==
  /\ StatsDone
  /\ transportMode = "bus"
  /\ Len(route) >= 2
  /\ FareLegs(Len(route)) >= 1
  /\ \E k \in 1..Len(route) : Leg(k) > 0 /\ Leg(k) < 500
  /\ result = MixedStats

----------------------------------------------------------------------------
(* Further properties of findOptimalInsertionPoint *)

PtDist(a, b) == calculateDistance(a.lat, a.lng, b.lat, b.lng)

(* the distance is a metric on the points of the model *)
MetricOnCoords ==
  \A a, b, c \in Coords :
     /\ PtDist(a, b) >= 0
     /\ PtDist(a, b) = PtDist(b, a)
     /\ (PtDist(a, b) = 0) = (a = b)
     /\ PtDist(a, c) <= PtDist(a, b) + PtDist(b, c)

Baseline == calculateTotalDistance(currentLocation, route)

(* C30: with a distance that is a metric, the route with newStore inserted
   at any index 0..len(route) is no shorter than the route, so the smallest
   increase kept by the loop, and the one of the returned index, is never
   negative *)
C30_IncreaseNonNegative ==
  /\ (pc = "insertFor" /\ i >= 1) => (minIncrease >= 0 /\ minIncrease < Infinity)
  /\ (pc = "done" /\ Len(route) >= 1) =>
        /\ \A k \in 0..Len(route) : TotalWith(k) - Baseline >= 0
        /\ minIncrease = TotalWith(result) - Baseline
        /\ minIncrease >= 0

(* newStore lies on a leg of the path, away from its ends: inserting it
   there adds nothing, inserting it elsewhere adds something *)
C30_Witness ==
  /\ pc = "done"
  /\ Len(route) >= 2
  /\ minIncrease = 0
  /\ newStore.coordinates # currentLocation
  /\ \A k \in 1..Len(route) : route[k].coordinates # newStore.coordinates
  /\ \E k \in 0..Len(route) : TotalWith(k) - Baseline > 0
  /\ MetricOnCoords

====
